---- MODULE Spec2Model ----
(***************************************************************************)
(* Model of the challenge-selector shell of react-practice (App.jsx) and   *)
(* of the registry of challenges it renders.                               *)
(*                                                                         *)
(* Program state:                                                          *)
(*   challenges        the module-level array of descriptors               *)
(*   selectedChallenge the useState cell of App                            *)
(*   view              the output of the last render of App                *)
(* History (not program state):                                            *)
(*   clicks            the ids of the last MaxClicks sidebar clicks        *)
(*   lastAction        the operation that produced the current state       *)
(*                                                                         *)
(* and of the code snippets of the guides. Each snippet has one variable,  *)
(* a record of the snippet's own variables (under their names in the      *)
(* snippet), of the part of the environment it acts on (clock, timers,     *)
(* server responses) and of the history its properties are stated over:    *)
(*   deb      debounce                 (03-JavaScript-Guide)               *)
(*   thr      throttle                 (03-JavaScript-Guide)               *)
(*   memo     memoize                  (03-JavaScript-Guide)               *)
(*   loop     event loop example       (03-JavaScript-Guide)               *)
(*   rate     client-side throttle     (04-API-WebServices-Guide)          *)
(*   backoff  fetchWithBackoff         (04-API-WebServices-Guide)          *)
(*   retry    fetchWithRetry           (04-API-WebServices-Guide)          *)
(*   auth     fetchWithAuth            (04-API-WebServices-Guide)          *)
(*   axios    axios interceptor        (04-API-WebServices-Guide)          *)
(*   eff      useEffect data fetching  (07-TypeScript-Guide)               *)
(*   uf       useFetch                 (07-TypeScript-Guide)               *)
(*   wsk      useWebSocket             (04-API-WebServices-Guide)          *)
(*   db       Database singleton       (07-TypeScript-Guide)               *)
(*   rc       RemoteControl            (07-TypeScript-Guide)               *)
(*   em       EventEmitter             (07-TypeScript-Guide)               *)
(* A specification runs one of them; the others stay Unloaded.             *)
(***************************************************************************)
EXTENDS Integers, Sequences, FiniteSets, TLC

VARIABLES challenges, selectedChallenge, view, clicks, lastAction,
          deb, thr, memo, loop, rate, backoff, retry, auth, axios,
          eff, uf, wsk, db, rc, em

shellVars == <<challenges, selectedChallenge, view, clicks, lastAction>>

vars == <<challenges, selectedChallenge, view, clicks, lastAction,
          deb, thr, memo, loop, rate, backoff, retry, auth, axios,
          eff, uf, wsk, db, rc, em>>

\* The value of the variables of a program that is not running.
Unloaded == [loaded |-> FALSE]

\* The programs named in S run; every other one is not loaded.
Off(S) ==
  /\ IF "shell" \in S THEN TRUE
     ELSE /\ challenges = Unloaded
          /\ selectedChallenge = Unloaded
          /\ view = Unloaded
          /\ clicks = Unloaded
          /\ lastAction = Unloaded
  /\ IF "deb" \in S THEN TRUE ELSE deb = Unloaded
  /\ IF "thr" \in S THEN TRUE ELSE thr = Unloaded
  /\ IF "memo" \in S THEN TRUE ELSE memo = Unloaded
  /\ IF "loop" \in S THEN TRUE ELSE loop = Unloaded
  /\ IF "rate" \in S THEN TRUE ELSE rate = Unloaded
  /\ IF "backoff" \in S THEN TRUE ELSE backoff = Unloaded
  /\ IF "retry" \in S THEN TRUE ELSE retry = Unloaded
  /\ IF "auth" \in S THEN TRUE ELSE auth = Unloaded
  /\ IF "axios" \in S THEN TRUE ELSE axios = Unloaded
  /\ IF "eff" \in S THEN TRUE ELSE eff = Unloaded
  /\ IF "uf" \in S THEN TRUE ELSE uf = Unloaded
  /\ IF "wsk" \in S THEN TRUE ELSE wsk = Unloaded
  /\ IF "db" \in S THEN TRUE ELSE db = Unloaded
  /\ IF "rc" \in S THEN TRUE ELSE rc = Unloaded
  /\ IF "em" \in S THEN TRUE ELSE em = Unloaded

\* A step of the programs named in S leaves every other one alone.
Frame(S) ==
  /\ IF "shell" \in S THEN TRUE ELSE UNCHANGED shellVars
  /\ IF "deb" \in S THEN TRUE ELSE UNCHANGED deb
  /\ IF "thr" \in S THEN TRUE ELSE UNCHANGED thr
  /\ IF "memo" \in S THEN TRUE ELSE UNCHANGED memo
  /\ IF "loop" \in S THEN TRUE ELSE UNCHANGED loop
  /\ IF "rate" \in S THEN TRUE ELSE UNCHANGED rate
  /\ IF "backoff" \in S THEN TRUE ELSE UNCHANGED backoff
  /\ IF "retry" \in S THEN TRUE ELSE UNCHANGED retry
  /\ IF "auth" \in S THEN TRUE ELSE UNCHANGED auth
  /\ IF "axios" \in S THEN TRUE ELSE UNCHANGED axios
  /\ IF "eff" \in S THEN TRUE ELSE UNCHANGED eff
  /\ IF "uf" \in S THEN TRUE ELSE UNCHANGED uf
  /\ IF "wsk" \in S THEN TRUE ELSE UNCHANGED wsk
  /\ IF "db" \in S THEN TRUE ELSE UNCHANGED db
  /\ IF "rc" \in S THEN TRUE ELSE UNCHANGED rc
  /\ IF "em" \in S THEN TRUE ELSE UNCHANGED em

\* Length of the window of remembered clicks.
MaxClicks == 3

\* The lookup is probed with the ids 0 .. Len(registry) + ProbeSlack.
ProbeSlack == 2

\* What `undefined` is rendered as: find(...)?.component of a missing id,
\* and `undefined && <X />` in the main content.
Undefined == [undefined |-> TRUE]

(***************************************************************************)
(* The challenge components: the name App imports each under, the file it  *)
(* is the default export of, and the <h2> of the <div> it returns. Each    *)
(* takes no props.                                                         *)
(***************************************************************************)
Challenge1 == [component |-> "Challenge1", file |-> "Challenge1-UserList",       h2 |-> "Challenge 1: User List"]
Challenge2 == [component |-> "Challenge2", file |-> "Challenge2-SearchFilter",   h2 |-> "Challenge 2: Search & Filter"]
Challenge3 == [component |-> "Challenge3", file |-> "Challenge3-TodoList",       h2 |-> "Challenge 3: Todo List"]
Challenge4 == [component |-> "Challenge4", file |-> "Challenge4-FormValidation", h2 |-> "Challenge 4: Form Validation"]
Challenge5 == [component |-> "Challenge5", file |-> "Challenge5-CustomHook",     h2 |-> "Challenge 5: Custom Hook"]

\* The "Challenges" section of the README: per challenge its number, title,
\* estimated time and file.
ReadmeChallenges ==
  << [number |-> 1, title |-> "User List with Fetch", time |-> "10-15 min", file |-> "Challenge1-UserList"],
     [number |-> 2, title |-> "Search & Filter",      time |-> "15-20 min", file |-> "Challenge2-SearchFilter"],
     [number |-> 3, title |-> "Todo List",            time |-> "20-25 min", file |-> "Challenge3-TodoList"],
     [number |-> 4, title |-> "Form Validation",      time |-> "20-25 min", file |-> "Challenge4-FormValidation"],
     [number |-> 5, title |-> "Custom Hook",          time |-> "15-20 min", file |-> "Challenge5-CustomHook"] >>

\* const challenges = [ ... ] with the third entry bound to Challenge4 and
\* given the time of the second.
ChallengeRegistry_misbound ==
  << [id |-> 1, name |-> "User List with Fetch", component |-> Challenge1, time |-> "10-15 min"],
     [id |-> 2, name |-> "Search & Filter",      component |-> Challenge2, time |-> "15-20 min"],
     [id |-> 3, name |-> "Todo List (CRUD)",     component |-> Challenge4, time |-> "15-20 min"],
     [id |-> 4, name |-> "Form Validation",      component |-> Challenge4, time |-> "20-25 min"],
     [id |-> 5, name |-> "Custom Hook",          component |-> Challenge5, time |-> "15-20 min"] >>

\* const challenges = [ ... ]
ChallengeRegistry ==
  << [id |-> 1, name |-> "User List with Fetch", component |-> Challenge1, time |-> "10-15 min"],
     [id |-> 2, name |-> "Search & Filter",      component |-> Challenge2, time |-> "15-20 min"],
     [id |-> 3, name |-> "Todo List (CRUD)",     component |-> Challenge3, time |-> "20-25 min"],
     [id |-> 4, name |-> "Form Validation",      component |-> Challenge4, time |-> "20-25 min"],
     [id |-> 5, name |-> "Custom Hook",          component |-> Challenge5, time |-> "15-20 min"] >>

\* useState(challenges.length)
InitialSelection_last == Len(ChallengeRegistry)

\* useState(1)
InitialSelection == 1

(***************************************************************************)
(* Pure parts of App's render.                                             *)
(***************************************************************************)

\* Array.prototype.find: the first element satisfying c.id === id, or
\* undefined.
RECURSIVE FindFrom(_, _, _)
FindFrom(reg, id, i) ==
  IF i > Len(reg) THEN Undefined
  ELSE IF reg[i].id = id THEN reg[i]
  ELSE FindFrom(reg, id, i + 1)

\* challenges.find(...) that starts at the second element.
Find_skipFirst(reg, id) == FindFrom(reg, id, 2)

\* challenges.find(c => c.id === selectedChallenge)
Find(reg, id) == FindFrom(reg, id, 1)

\* challenges.find(...).component, without the optional chaining: reading
\* .component of undefined throws a TypeError, which takes the place of the
\* output.
CurrentChallenge_unchained(reg, sel) ==
  LET d == Find(reg, sel) IN
    IF d = Undefined THEN [error |-> "TypeError"] ELSE d.component

\* challenges.find(...)?.component
CurrentChallenge(reg, sel) ==
  LET d == Find(reg, sel) IN IF d = Undefined THEN Undefined ELSE d.component

\* selectedChallenge !== challenge.id ? '#007bff' : '#f0f0f0'
Background_inverted(sel, challenge) ==
  IF sel # challenge.id THEN "#007bff" ELSE "#f0f0f0"

\* background: selectedChallenge === challenge.id ? '#007bff' : '#f0f0f0'
Background(sel, challenge) ==
  IF sel = challenge.id THEN "#007bff" ELSE "#f0f0f0"

\* color: selectedChallenge === challenge.id ? 'white' : 'black'
Color(sel, challenge) ==
  IF sel = challenge.id THEN "white" ELSE "black"

\* One <li> of the sidebar: its key, the id its onClick passes to
\* setSelectedChallenge, its style and its three text lines.
SidebarEntry(sel, challenge) ==
  [ key        |-> challenge.id,
    onClick    |-> challenge.id,
    background |-> Background(sel, challenge),
    color      |-> Color(sel, challenge),
    title      |-> challenge.id,
    name       |-> challenge.name,
    time       |-> challenge.time ]

\* {CurrentChallenge && <CurrentChallenge />}: nothing when the lookup is
\* undefined, else the element the component function returns.
MainContent(reg, sel) ==
  LET C == CurrentChallenge(reg, sel) IN IF C = Undefined THEN Undefined ELSE C

\* The value App returns: the sidebar (challenges.map) and the main content.
Render(reg, sel) ==
  [ sidebar |-> [i \in 1..Len(reg) |-> SidebarEntry(sel, reg[i])],
    main    |-> MainContent(reg, sel) ]

(***************************************************************************)
(* The shell.                                                              *)
(***************************************************************************)

\* The last MaxClicks clicks, the newest last.
Remember(h, id) ==
  IF Len(h) < MaxClicks THEN Append(h, id) ELSE Append(Tail(h), id)

\* Module load and the first render of App.
Init ==
  /\ challenges = ChallengeRegistry
  /\ selectedChallenge = InitialSelection
  /\ view = Render(challenges, selectedChallenge)
  /\ clicks = << >>
  /\ lastAction = "init"
  /\ Off({"shell"})

\* A click on the i-th sidebar button that toggles the selection off when
\* the entry is already selected.
ClickButton_toggle(i) ==
  /\ i \in DOMAIN view.sidebar
  /\ LET id == view.sidebar[i].onClick
         next == IF selectedChallenge = id THEN 0 ELSE id IN
       /\ selectedChallenge' = next
       /\ view' = Render(challenges, next)
       /\ clicks' = Remember(clicks, id)
  /\ lastAction' = "select"
  /\ UNCHANGED challenges

\* A click on the i-th sidebar button whose handler passes the array index
\* of the entry instead of its id.
ClickButton_index(i) ==
  /\ i \in DOMAIN view.sidebar
  /\ LET id == view.sidebar[i].onClick IN
       /\ selectedChallenge' = i - 1
       /\ view' = Render(challenges, i - 1)
       /\ clicks' = Remember(clicks, id)
  /\ lastAction' = "select"
  /\ UNCHANGED challenges

\* A click on the i-th sidebar button that moves the clicked descriptor to
\* the front of the array.
ClickButton_reorder(i) ==
  /\ i \in DOMAIN view.sidebar
  /\ LET id == view.sidebar[i].onClick
         reg == <<challenges[i]>> \o SubSeq(challenges, 1, i - 1)
                  \o SubSeq(challenges, i + 1, Len(challenges)) IN
       /\ challenges' = reg
       /\ selectedChallenge' = id
       /\ view' = Render(reg, id)
       /\ clicks' = Remember(clicks, id)
  /\ lastAction' = "select"

\* A click on the i-th sidebar button whose state update is only applied
\* by a later render: the view is left as it was.
ClickButton_deferred(i) ==
  /\ i \in DOMAIN view.sidebar
  /\ LET id == view.sidebar[i].onClick IN
       /\ selectedChallenge' = id
       /\ clicks' = Remember(clicks, id)
  /\ lastAction' = "select"
  /\ UNCHANGED <<challenges, view>>

\* A click on the i-th sidebar button: onClick calls
\* setSelectedChallenge(challenge.id) with the id the button was rendered
\* with, and React renders App again with the new state.
ClickButton(i) ==
  /\ i \in DOMAIN view.sidebar
  /\ LET id == view.sidebar[i].onClick IN
       /\ selectedChallenge' = id
       /\ view' = Render(challenges, id)
       /\ clicks' = Remember(clicks, id)
  /\ lastAction' = "select"
  /\ UNCHANGED challenges

\* selectChallenge: the user picks one of the entries the sidebar offers.
SelectChallenge == \E i \in 1..Len(challenges) : ClickButton(i)

\* App is rendered again with the state as it is.
RenderApp ==
  /\ view' = Render(challenges, selectedChallenge)
  /\ lastAction' = "render"
  /\ UNCHANGED <<challenges, selectedChallenge, clicks>>

\* A challenge component that is handed the setter and selects the next
\* challenge when it runs.
RunChallenge_setter ==
  /\ view.main # Undefined
  /\ LET next == (selectedChallenge % Len(challenges)) + 1 IN
       /\ selectedChallenge' = next
       /\ view' = Render(challenges, next)
  /\ lastAction' = "challenge"
  /\ UNCHANGED <<challenges, clicks>>

\* The component in the main content runs: <CurrentChallenge /> is called
\* with no props, so it has nothing of the shell to read or to change.
RunChallenge ==
  /\ view.main # Undefined
  /\ lastAction' = "challenge"
  /\ UNCHANGED <<challenges, selectedChallenge, view, clicks>>

Next ==
  \/ SelectChallenge /\ Frame({"shell"})
  \/ RenderApp /\ Frame({"shell"})
  \/ RunChallenge /\ Frame({"shell"})

Spec == Init /\ [][Next]_vars

\* The shell started on any id of ProbeIds, in the registry or not: the
\* inputs the lookup and the render are applied to.
ProbeIds == 0 .. (Len(ChallengeRegistry) + ProbeSlack)

InitLookup ==
  /\ challenges = ChallengeRegistry
  /\ selectedChallenge \in ProbeIds
  /\ view = Render(challenges, selectedChallenge)
  /\ clicks = << >>
  /\ lastAction = "init"
  /\ Off({"shell"})

SpecLookup == InitLookup /\ [][Next]_vars

(***************************************************************************)
(* Properties of the shell.                                                *)
(***************************************************************************)

\* The ids of the registry.
RegistryIds == {challenges[i].id : i \in 1..Len(challenges)}

\* The descriptors that carry the id.
DescriptorsWithId(id) == {i \in 1..Len(challenges) : challenges[i].id = id}

\* The sidebar entries drawn as selected.
Highlighted == {i \in DOMAIN view.sidebar : view.sidebar[i].background = "#007bff"}

\* The id of the last click.
LastClick == clicks[Len(clicks)]

\* C1: in every reachable state selectedId (selectedChallenge) is the id of
\* some descriptor of the registry.
C1_SelectedInRegistry == selectedChallenge \in RegistryIds

C1_Witness ==
  /\ lastAction = "select"
  /\ Len(clicks) >= 3
  /\ selectedChallenge = challenges[Len(challenges)].id

\* C2: after any sequence of selections the active descriptor, the one whose
\* component is the body, is the descriptor with the id of the last
\* selection; after selecting id 2 its name is "Search & Filter".
C2_ActiveIsLastSelected ==
  clicks # << >> =>
    /\ LastClick \in RegistryIds
    /\ selectedChallenge = LastClick
    /\ \A i \in DescriptorsWithId(LastClick) :
         /\ Find(challenges, selectedChallenge) = challenges[i]
         /\ view.main = challenges[i].component
         /\ Highlighted = {i}
    /\ (LastClick = 2 => Find(challenges, selectedChallenge).name = "Search & Filter")

C2_Witness ==
  /\ Len(clicks) >= 2
  /\ clicks[Len(clicks) - 1] = 1
  /\ LastClick = 2
  /\ view.main = Challenge2

\* C3: before any selection action selectedId is the id of the first
\* element of the registry.
C3_InitialIsFirst ==
  clicks = << >> =>
    /\ selectedChallenge = challenges[1].id
    /\ view.main = challenges[1].component

C3_Witness ==
  /\ lastAction = "init"
  /\ clicks = << >>
  /\ Highlighted = {1}

\* C4: selecting the id that is already selected leaves the state and the
\* render output unchanged.
C4_SelectSameIdempotent ==
  [][ (lastAction' = "select" /\ clicks' # << >>
         /\ clicks'[Len(clicks')] = selectedChallenge)
      => (selectedChallenge' = selectedChallenge /\ view' = view
            /\ challenges' = challenges) ]_vars

C4_Witness ==
  /\ lastAction = "select"
  /\ Len(clicks) >= 2
  /\ clicks[Len(clicks) - 1] = LastClick
  /\ selectedChallenge = LastClick
  /\ Highlighted = {LastClick}

\* C5: registry ids are unique, exactly one sidebar entry is highlighted and
\* exactly one challenge component is the body.
C5_ExactlyOneSelected ==
  /\ \A i, j \in 1..Len(challenges) : challenges[i].id = challenges[j].id => i = j
  /\ Cardinality(Highlighted) = 1
  /\ Cardinality({i \in 1..Len(challenges) : view.main = challenges[i].component}) = 1
  /\ \A i \in Highlighted : view.main = challenges[i].component

C5_Witness ==
  /\ lastAction = "render"
  /\ Highlighted = {3}
  /\ view.main = Challenge3

\* C6: no step changes the registry: its descriptors and their order stay
\* as they were constructed.
C6_RegistryImmutable == [][challenges' = challenges]_vars

C6_Witness ==
  /\ lastAction = "challenge"
  /\ Len(clicks) >= 2
  /\ clicks[1] # LastClick
  /\ challenges = ChallengeRegistry

\* C7: from every reachable state, for every valid id M, one selection step
\* leads to "M selected"; a selection step ends with the clicked id selected
\* and rendered, and no state has a render pending.
C7_DirectTransition ==
  /\ [](\A m \in RegistryIds : ENABLED (SelectChallenge /\ selectedChallenge' = m))
  /\ [](view = Render(challenges, selectedChallenge))
  /\ [][lastAction' = "select" =>
          (selectedChallenge' = clicks'[Len(clicks')]
             /\ view'.main = CurrentChallenge(challenges', selectedChallenge'))]_vars

C7_Witness ==
  /\ lastAction = "select"
  /\ Len(clicks) >= 3
  /\ clicks[Len(clicks) - 2] = 4
  /\ clicks[Len(clicks) - 1] = 1
  /\ LastClick = 5
  /\ view.main = Challenge5

\* C8: a render of the shell or a run of a challenge component leaves
\* selectedId unchanged; only a selection step changes it.
C8_OnlySelectionChangesSelected ==
  [][ /\ (lastAction' \in {"render", "challenge"} => selectedChallenge' = selectedChallenge)
      /\ (selectedChallenge' # selectedChallenge => lastAction' = "select") ]_vars

C8_Witness ==
  /\ lastAction = "challenge"
  /\ clicks # << >>
  /\ selectedChallenge = 4
  /\ view.main = Challenge4

\* C9: lookup by id gives the descriptor with that id, or undefined when
\* there is none; with the lookup undefined the shell renders the whole
\* selection list with no entry highlighted and no challenge body.
C9_LookupNotFound ==
  /\ \A id \in ProbeIds :
       /\ (id \in RegistryIds => Find(challenges, id) # Undefined /\ Find(challenges, id).id = id)
       /\ (id \notin RegistryIds => Find(challenges, id) = Undefined)
  /\ selectedChallenge \notin RegistryIds =>
       /\ CurrentChallenge(challenges, selectedChallenge) = Undefined
       /\ view.main = Undefined
       /\ Highlighted = {}
       /\ DOMAIN view.sidebar = 1..Len(challenges)
       /\ \A i \in DOMAIN view.sidebar : view.sidebar[i].onClick = challenges[i].id

C9_Witness ==
  /\ selectedChallenge \notin RegistryIds
  /\ lastAction = "render"
  /\ view.main = Undefined

\* C10: the registry holds exactly the 5 challenges of the README, ids 1 to
\* 5 in ascending order, each bound to the component of the same number and
\* carrying the README's estimated time.
C10_RegistryMatchesReadme ==
  /\ Len(challenges) = 5
  /\ Len(challenges) = Len(ReadmeChallenges)
  /\ \A i \in 1..Len(challenges) :
       /\ challenges[i].id = i
       /\ challenges[i].id = ReadmeChallenges[i].number
       /\ challenges[i].component.file = ReadmeChallenges[i].file
       /\ challenges[i].component = <<Challenge1, Challenge2, Challenge3, Challenge4, Challenge5>>[i]
       /\ challenges[i].time = ReadmeChallenges[i].time
  /\ <<"10-15 min", "15-20 min", "20-25 min", "20-25 min", "15-20 min">>
       = [i \in 1..Len(challenges) |-> challenges[i].time]

C10_Witness ==
  /\ lastAction = "select"
  /\ selectedChallenge = 5
  /\ view.sidebar[5].time = "15-20 min"
  /\ view.sidebar[3].time = "20-25 min"
  /\ view.main.file = "Challenge5-CustomHook"

(***************************************************************************)
(* debounce(func, delay) of the JavaScript guide.                          *)
(*                                                                         *)
(* deb.timeoutId  the closure's timeoutId (0: undefined)                   *)
(* deb.timers     the timers setTimeout has registered and that have       *)
(*                neither fired nor been cleared: id, due time, the args   *)
(*                the callback closes over and the call that set it        *)
(* deb.nextId     the id the next setTimeout returns                       *)
(* deb.now        the clock                                                *)
(* deb.calls      history: the calls of the debounced function             *)
(* deb.runs       history: the executions of func                          *)
(***************************************************************************)

\* Calls of the debounced function in one run.
MaxDebCalls == 3

\* The clock stops at MaxDebTime.
MaxDebTime == 6

\* The delay given to debounce, in ticks of the clock.
DebDelay == 2

\* The arguments the debounced function is called with.
DebArgs == {"a", "b"}

\* const search = debounce(func, delay): timeoutId is declared and not set.
DebInit ==
  /\ deb = [ timeoutId |-> 0, timers |-> {}, nextId |-> 1, now |-> 0,
             calls |-> << >>, runs |-> << >> ]
  /\ Off({"deb"})

\* clearTimeout(id): the timer with that id, if it is still pending, is
\* dropped; any other id (undefined, a timer that has fired) is ignored.
ClearTimeout(timers, id) == {t \in timers : t.id # id}

\* The debounced function without its clearTimeout: the timer of the
\* earlier call stays.
DebCleared_kept(timers, id) == timers

\* clearTimeout(timeoutId) of the debounced function.
DebCleared(timers, id) == ClearTimeout(timers, id)

\* search(args): clearTimeout(timeoutId), then
\* timeoutId = setTimeout(() => func(...args), delay).
DebCall(args) ==
  /\ Len(deb.calls) < MaxDebCalls
  /\ LET id == deb.nextId
         timer == [ id |-> id, due |-> deb.now + DebDelay, args |-> args,
                    call |-> Len(deb.calls) + 1 ] IN
       deb' = [ deb EXCEPT
                  !.timers = DebCleared(deb.timers, deb.timeoutId) \cup {timer},
                  !.timeoutId = id,
                  !.nextId = id + 1,
                  !.calls = Append(@, [args |-> args, at |-> deb.now]) ]

\* Time passes. A timer that is due need not fire at once: setTimeout
\* promises no less than the delay, not the delay.
DebTick ==
  /\ deb.now < MaxDebTime
  /\ deb' = [deb EXCEPT !.now = @ + 1]

\* A due timer fires: its callback runs func(...args).
DebFire(t) ==
  /\ t \in deb.timers
  /\ deb.now >= t.due
  /\ deb' = [ deb EXCEPT
                !.timers = @ \ {t},
                !.runs = Append(@, [ args |-> t.args, at |-> deb.now,
                                     call |-> t.call,
                                     seen |-> Len(deb.calls) ]) ]

DebNext ==
  \/ (\E a \in DebArgs : DebCall(a)) /\ Frame({"deb"})
  \/ DebTick /\ Frame({"deb"})
  \/ (\E t \in deb.timers : DebFire(t)) /\ Frame({"deb"})

SpecDebounce == DebInit /\ [][DebNext]_vars

\* C11: at most one timer is pending; func runs only for a call that no
\* other call has followed, no sooner than delay after that call and with
\* that call's arguments; no call is executed twice.
C11_DebounceRunsLastCallAfterQuiet ==
  /\ Cardinality(deb.timers) <= 1
  /\ \A i \in 1..Len(deb.runs) :
       LET r == deb.runs[i] IN
         /\ r.call = r.seen
         /\ r.args = deb.calls[r.call].args
         /\ r.at >= deb.calls[r.call].at + DebDelay
         /\ \A j \in 1..Len(deb.runs) : deb.runs[j].call = r.call => j = i

\* A burst of two calls, then quiet: func has run once, for the second.
C11_Witness ==
  /\ Len(deb.calls) >= 2
  /\ deb.calls[1].args # deb.calls[2].args
  /\ deb.calls[2].at < deb.calls[1].at + DebDelay
  /\ Len(deb.runs) = 1
  /\ deb.runs[1].call = 2
  /\ deb.timers = {}

(***************************************************************************)
(* throttle(func, limit) of the JavaScript guide.                          *)
(*                                                                         *)
(* thr.inThrottle the closure's inThrottle (FALSE: undefined or false)     *)
(* thr.timers     the pending timers of setTimeout(() => inThrottle =      *)
(*                false, limit): id and due time                           *)
(* thr.nextId     the id the next setTimeout returns                       *)
(* thr.now        the clock                                                *)
(* thr.calls      history: the calls of the throttled function, each with  *)
(*                whether a reset timer was pending and whether            *)
(*                inThrottle was set when it was made                      *)
(* thr.runs       history: the executions of func                          *)
(***************************************************************************)

\* Calls of the throttled function in one run.
MaxThrCalls == 4

\* The clock stops at MaxThrTime.
MaxThrTime == 5

\* The limit given to throttle, in ticks of the clock.
ThrLimit == 2

\* The arguments the throttled function is called with.
ThrArgs == {"a", "b"}

\* const handleScroll = throttle(func, limit): inThrottle is declared and
\* not set.
ThrInit ==
  /\ thr = [ inThrottle |-> FALSE, timers |-> {}, nextId |-> 1, now |-> 0,
             calls |-> << >>, runs |-> << >> ]
  /\ Off({"thr"})

\* The throttled function with `inThrottle = true` left out.
ThrCall_noFlag(args) ==
  /\ Len(thr.calls) < MaxThrCalls
  /\ LET call == [ args |-> args, at |-> thr.now, pending |-> thr.timers # {},
                   inThrottle |-> thr.inThrottle ]
         n == Len(thr.calls) + 1 IN
       IF ~thr.inThrottle
       THEN thr' = [ thr EXCEPT
                       !.timers = @ \cup {[id |-> thr.nextId, due |-> thr.now + ThrLimit]},
                       !.nextId = @ + 1,
                       !.calls = Append(@, call),
                       !.runs = Append(@, [args |-> args, at |-> thr.now, call |-> n]) ]
       ELSE thr' = [thr EXCEPT !.calls = Append(@, call)]

\* handleScroll(args): if (!inThrottle) { func(...args); inThrottle = true;
\* setTimeout(() => inThrottle = false, limit) }; otherwise nothing.
ThrCall(args) ==
  /\ Len(thr.calls) < MaxThrCalls
  /\ LET call == [ args |-> args, at |-> thr.now, pending |-> thr.timers # {},
                   inThrottle |-> thr.inThrottle ]
         n == Len(thr.calls) + 1 IN
       IF ~thr.inThrottle
       THEN thr' = [ thr EXCEPT
                       !.inThrottle = TRUE,
                       !.timers = @ \cup {[id |-> thr.nextId, due |-> thr.now + ThrLimit]},
                       !.nextId = @ + 1,
                       !.calls = Append(@, call),
                       !.runs = Append(@, [args |-> args, at |-> thr.now, call |-> n]) ]
       ELSE thr' = [thr EXCEPT !.calls = Append(@, call)]

\* Time passes; a due timer need not fire at once.
ThrTick ==
  /\ thr.now < MaxThrTime
  /\ thr' = [thr EXCEPT !.now = @ + 1]

\* A timer callback that also runs func for the last call if that call
\* was skipped (a trailing-edge throttle).
ThrFire_trailing(t) ==
  /\ t \in thr.timers
  /\ thr.now >= t.due
  /\ LET n == Len(thr.calls) IN
       thr' = [ thr EXCEPT
                  !.timers = @ \ {t},
                  !.inThrottle = FALSE,
                  !.runs = IF thr.calls[n].inThrottle
                           THEN Append(@, [ args |-> thr.calls[n].args,
                                            at |-> thr.now, call |-> n ])
                           ELSE @ ]

\* A due timer fires: () => inThrottle = false.
ThrFire(t) ==
  /\ t \in thr.timers
  /\ thr.now >= t.due
  /\ thr' = [thr EXCEPT !.timers = @ \ {t}, !.inThrottle = FALSE]

ThrNext ==
  \/ (\E a \in ThrArgs : ThrCall(a)) /\ Frame({"thr"})
  \/ ThrTick /\ Frame({"thr"})
  \/ (\E t \in thr.timers : ThrFire(t)) /\ Frame({"thr"})

SpecThrottle == ThrInit /\ [][ThrNext]_vars

\* The executions of func for the call.
ThrRunsOf(n) == {i \in 1..Len(thr.runs) : thr.runs[i].call = n}

C24_ThrottledCallDropped ==
  /\ \A n \in 1..Len(thr.calls) :
       thr.calls[n].inThrottle => ThrRunsOf(n) = {}
  /\ \A i \in 1..Len(thr.runs) :
       LET c == thr.calls[thr.runs[i].call] IN
         /\ ~c.inThrottle
         /\ thr.runs[i].at = c.at
         /\ thr.runs[i].args = c.args

\* The last call of a burst, with other arguments than the first, was
\* made while inThrottle was set; the timer has fired, more than limit
\* has passed since, and func has run for the first call only.
C24_Witness ==
  /\ Len(thr.calls) = 2
  /\ thr.calls[2].inThrottle
  /\ thr.calls[2].args # thr.calls[1].args
  /\ thr.timers = {}
  /\ ~thr.inThrottle
  /\ thr.now > thr.calls[2].at + ThrLimit
  /\ Len(thr.runs) = 1
  /\ thr.runs[1].call = 1

(***************************************************************************)
(* memoize(fn) of the JavaScript guide.                                    *)
(*                                                                         *)
(* JavaScript values are written as their source text: "null",             *)
(* "undefined", "0", "1".                                                  *)
(*                                                                         *)
(* memo.fn       the function memoized: a result for each argument         *)
(* memo.cache    the closure's Map, from key to result                     *)
(* memo.calls    history: the calls of the memoized function with the key  *)
(*               computed and the value returned                           *)
(* memo.invoked  history: the arguments fn was invoked with                *)
(***************************************************************************)

\* Calls of the memoized function in one run.
MaxMemoCalls == 3

\* The (single) argument the memoized function is called with.
MemoArgs == {"null", "undefined", "0", "1"}

\* The values fn returns: undefined, a falsy value, a truthy value.
MemoResults == {"undefined", "0", "x"}

\* JSON.stringify([x]): inside an array undefined is written null.
JSONStringify(x) ==
  CASE x = "undefined" -> "[null]"
    [] x = "null"      -> "[null]"
    [] OTHER           -> "[" \o x \o "]"

\* const m = memoize(fn): cache = new Map().
MemoInit ==
  /\ \E f \in [MemoArgs -> MemoResults] :
       memo = [ fn |-> f, cache |-> << >>, calls |-> << >>, invoked |-> << >> ]
  /\ Off({"memo"})

\* cache.set(key, result)
MapSet(map, key, value) ==
  [k \in DOMAIN map \cup {key} |-> IF k = key THEN value ELSE map[k]]

\* m(x): key = JSON.stringify(args); a key the cache has returns
\* cache.get(key); otherwise fn runs, its result is cached and returned.
MemoCall(x) ==
  /\ Len(memo.calls) < MaxMemoCalls
  /\ LET key == JSONStringify(x) IN
       IF key \in DOMAIN memo.cache
       THEN memo' = [ memo EXCEPT
                        !.calls = Append(@, [ args |-> x, key |-> key, hit |-> TRUE,
                                              returned |-> memo.cache[key] ]) ]
       ELSE LET result == memo.fn[x] IN
            memo' = [ memo EXCEPT
                        !.cache = MapSet(@, key, result),
                        !.invoked = Append(@, x),
                        !.calls = Append(@, [ args |-> x, key |-> key, hit |-> FALSE,
                                              returned |-> result ]) ]

MemoNext == (\E x \in MemoArgs : MemoCall(x)) /\ Frame({"memo"})

SpecMemoize == MemoInit /\ [][MemoNext]_vars

\* C13: every call of the memoized function returns what fn returns for its
\* arguments, and fn is invoked at most once per key, also when the cached
\* result is undefined or falsy.
C13_MemoizeReturnsFnValue ==
  /\ \A i \in 1..Len(memo.calls) :
       memo.calls[i].returned = memo.fn[memo.calls[i].args]
  /\ \A i, j \in 1..Len(memo.invoked) :
       JSONStringify(memo.invoked[i]) = JSONStringify(memo.invoked[j]) => i = j

(***************************************************************************)
(* The event loop as the JavaScript guide describes it, running the        *)
(* guide's example script and its variants.                                *)
(*                                                                         *)
(* A statement is console.log(v), setTimeout(cb, 0) or                     *)
(* Promise.resolve().then(cb); cb is a sequence of statements.             *)
(*                                                                         *)
(* loop.program  the script                                                *)
(* loop.stack    the statements the running task has yet to execute        *)
(* loop.running  the kind of the running (or last run) task                *)
(* loop.micro    the microtask queue                                       *)
(* loop.macro    the callback (macrotask) queue                            *)
(* loop.output   the console: each value with the kind of task that        *)
(*               logged it                                                 *)
(* loop.started  history: the callbacks started, each with the number of   *)
(*               microtasks queued at that moment                          *)
(***************************************************************************)

Log(v) == [op |-> "log", v |-> v, cb |-> << >>]

SetTimeout0(cb) == [op |-> "setTimeout", v |-> "", cb |-> cb]

PromiseThen(cb) == [op |-> "then", v |-> "", cb |-> cb]

\* console.log('1'); setTimeout(() => console.log('2'), 0);
\* Promise.resolve().then(() => console.log('3')); console.log('4');
ExampleProgram ==
  << Log("1"), SetTimeout0(<<Log("2")>>), PromiseThen(<<Log("3")>>), Log("4") >>

\* The example with its four statements in every order, and scripts whose
\* callbacks queue further callbacks.
Programs ==
  { [i \in 1..4 |-> ExampleProgram[p[i]]] :
      p \in {q \in [1..4 -> 1..4] : \A i, j \in 1..4 : q[i] = q[j] => i = j} }
  \cup
  { << SetTimeout0(<<Log("2"), PromiseThen(<<Log("3")>>)>>),
       SetTimeout0(<<Log("5")>>), Log("1") >>,
    << PromiseThen(<<Log("3"), PromiseThen(<<Log("6")>>)>>),
       SetTimeout0(<<Log("2")>>), Log("1") >>,
    << PromiseThen(<<SetTimeout0(<<Log("2")>>), Log("3")>>),
       SetTimeout0(<<Log("5")>>), Log("4") >> }

\* The script is loaded: it is the first task, on the call stack.
LoopInit ==
  /\ \E p \in Programs :
       loop = [ program |-> p, stack |-> p, running |-> "sync",
                micro |-> << >>, macro |-> << >>, output |-> << >>,
                started |-> << >> ]
  /\ Off({"loop"})

\* The call stack executes the next statement of the running task:
\* console.log prints, setTimeout hands its callback to the callback queue
\* and then() of a resolved promise hands its to the microtask queue.
LoopExecute ==
  /\ loop.stack # << >>
  /\ LET s == Head(loop.stack) IN
       loop' = [ loop EXCEPT
                   !.stack = Tail(@),
                   !.output = IF s.op = "log"
                              THEN Append(@, [v |-> s.v, kind |-> loop.running])
                              ELSE @,
                   !.macro = IF s.op = "setTimeout" THEN Append(@, s.cb) ELSE @,
                   !.micro = IF s.op = "then" THEN Append(@, s.cb) ELSE @ ]

\* With the call stack empty the next microtask runs.
LoopMicrotask ==
  /\ loop.stack = << >>
  /\ loop.micro # << >>
  /\ loop' = [ loop EXCEPT
                 !.stack = Head(loop.micro),
                 !.micro = Tail(@),
                 !.running = "micro",
                 !.started = Append(@, [kind |-> "micro", queued |-> Len(loop.micro)]) ]

\* A macrotask taken from the callback queue as soon as the call stack is
\* empty, whatever the microtask queue holds.
LoopMacrotask_eager ==
  /\ loop.stack = << >>
  /\ loop.macro # << >>
  /\ loop' = [ loop EXCEPT
                 !.stack = Head(loop.macro),
                 !.macro = Tail(@),
                 !.running = "macro",
                 !.started = Append(@, [kind |-> "macro", queued |-> Len(loop.micro)]) ]

\* With the call stack empty and ALL microtasks run, ONE macrotask runs.
LoopMacrotask ==
  /\ loop.stack = << >>
  /\ loop.micro = << >>
  /\ loop.macro # << >>
  /\ loop' = [ loop EXCEPT
                 !.stack = Head(loop.macro),
                 !.macro = Tail(@),
                 !.running = "macro",
                 !.started = Append(@, [kind |-> "macro", queued |-> Len(loop.micro)]) ]

LoopNext ==
  \/ LoopExecute /\ Frame({"loop"})
  \/ LoopMicrotask /\ Frame({"loop"})
  \/ LoopMacrotask /\ Frame({"loop"})

SpecEventLoop == LoopInit /\ [][LoopNext]_vars

\* Nothing is left to run.
LoopDone == loop.stack = << >> /\ loop.micro = << >> /\ loop.macro = << >>

\* What the console shows.
LoopPrinted == [i \in 1..Len(loop.output) |-> loop.output[i].v]

\* C14: the output of synchronous code precedes that of every callback, a
\* macrotask starts only with no microtask queued, and the example prints
\* 1, 4, 3, 2.
C14_EventLoopOrder ==
  /\ \A i, j \in 1..Len(loop.output) :
       (i < j /\ loop.output[j].kind = "sync") => loop.output[i].kind = "sync"
  /\ \A i \in 1..Len(loop.started) :
       loop.started[i].kind = "macro" => loop.started[i].queued = 0
  /\ (LoopDone /\ loop.program = ExampleProgram) => LoopPrinted = <<"1", "4", "3", "2">>

C14_Witness ==
  /\ loop.program = ExampleProgram
  /\ LoopDone
  /\ LoopPrinted = <<"1", "4", "3", "2">>
  /\ Len(loop.started) = 2

(***************************************************************************)
(* The client-side throttle(fn, delay) of the API guide.                   *)
(*                                                                         *)
(* rate.lastCall  the closure's lastCall                                   *)
(* rate.now       Date.now()                                               *)
(* rate.waiting   the calls suspended at their await: the call and the     *)
(*                time its timer is due                                    *)
(* rate.calls     history: the time of each call of the throttled function *)
(* rate.invoked   history: the invocations of fn, each with its call and   *)
(*                its time                                                 *)
(***************************************************************************)

\* Calls of the throttled function in one run.
MaxRateCalls == 3

\* The clock stops MaxRateTime ticks after it started.
MaxRateTime == 5

\* The delay given to throttle, in ticks of the clock.
RateDelay == 3

\* const throttledFetch = throttle(fetch, delay): lastCall = 0, and the
\* clock reads a time far from 0.
RateInit ==
  /\ rate = [ lastCall |-> 0, now |-> 2 * RateDelay, waiting |-> {},
              calls |-> << >>, invoked |-> << >> ]
  /\ Off({"rate"})

\* throttledFetch(...args) up to its await or, with nothing to wait for, to
\* its end: now = Date.now(); if (now - lastCall < delay) the call sleeps
\* for delay - (now - lastCall); else lastCall = Date.now(); return fn().
RateCall ==
  /\ Len(rate.calls) < MaxRateCalls
  /\ LET n == Len(rate.calls) + 1
         now == rate.now IN
       IF now - rate.lastCall < RateDelay
       THEN rate' = [ rate EXCEPT
                        !.calls = Append(@, now),
                        !.waiting = @ \cup {[ call |-> n,
                                              due |-> now + (RateDelay - (now - rate.lastCall)) ]} ]
       ELSE rate' = [ rate EXCEPT
                        !.calls = Append(@, now),
                        !.lastCall = now,
                        !.invoked = Append(@, [call |-> n, at |-> now]) ]

\* The timer of a suspended call fires and the call goes on:
\* lastCall = Date.now(); return fn(...args).
RateResume(w) ==
  /\ w \in rate.waiting
  /\ rate.now >= w.due
  /\ rate' = [ rate EXCEPT
                 !.waiting = @ \ {w},
                 !.lastCall = rate.now,
                 !.invoked = Append(@, [call |-> w.call, at |-> rate.now]) ]

\* Time passes; a due timer need not fire at once.
RateTick ==
  /\ rate.now < 2 * RateDelay + MaxRateTime
  /\ rate' = [rate EXCEPT !.now = @ + 1]

RateNext ==
  \/ RateCall /\ Frame({"rate"})
  \/ (\E w \in rate.waiting : RateResume(w)) /\ Frame({"rate"})
  \/ RateTick /\ Frame({"rate"})

SpecRateThrottle == RateInit /\ [][RateNext]_vars

\* C15: any two invocations of fn are at least delay apart, whatever the
\* interleaving of the callers.
C15_InvocationsDelayApart ==
  \A i, j \in 1..Len(rate.invoked) :
    i < j => rate.invoked[j].at - rate.invoked[i].at >= RateDelay

(***************************************************************************)
(* fetchWithBackoff(url, maxRetries) of the API guide.                     *)
(*                                                                         *)
(* What a fetch gives is a record: a response with its status, or a        *)
(* rejection (a network error).                                            *)
(*                                                                         *)
(* backoff.maxRetries  the parameter                                       *)
(* backoff.i           the loop variable                                   *)
(* backoff.pc          where the call is: "start", "fetch" (about to       *)
(*                     fetch), "sleep" (awaiting the timer), "returned",   *)
(*                     "thrown"                                            *)
(* backoff.result      what the call returned, or the error it threw      *)
(* backoff.attempts    history: what each fetch gave                       *)
(* backoff.sleeps      history: the delay of each setTimeout               *)
(***************************************************************************)

\* The largest maxRetries a call is made with.
MaxMaxRetries == 5

Response(status) == [kind |-> "response", status |-> status]

NetworkError == [kind |-> "reject", status |-> 0]

Thrown(message) == [kind |-> "error", message |-> message]

\* What a fetch of the url can give.
FetchOutcomes == {Response(s) : s \in {200, 404, 429, 500, 503}} \cup {NetworkError}

\* Math.pow(2, i)
RECURSIVE Pow2(_)
Pow2(i) == IF i = 0 THEN 1 ELSE 2 * Pow2(i - 1)

\* A delay that grows by one second per attempt.
BackoffDelay_linear(i) == (i + 1) * 1000

\* const delay = Math.pow(2, i) * 1000
BackoffDelay(i) == Pow2(i) * 1000

\* fetchWithBackoff(url, maxRetries) is called.
BackoffInit ==
  /\ \E m \in 0..MaxMaxRetries :
       backoff = [ maxRetries |-> m, i |-> 0, pc |-> "start",
                   result |-> Unloaded, attempts |-> << >>, sleeps |-> << >> ]
  /\ Off({"backoff"})

\* The loop test i < maxRetries, and after the loop
\* throw new Error('Max retries reached').
BackoffLoop(b) ==
  IF b.i < b.maxRetries
  THEN [b EXCEPT !.pc = "fetch"]
  ELSE [b EXCEPT !.pc = "thrown", !.result = Thrown("Max retries reached")]

\* let i = 0 and the first loop test.
BackoffStart ==
  /\ backoff.pc = "start"
  /\ backoff' = BackoffLoop([backoff EXCEPT !.i = 0])

\* const response = await fetch(url): a rejection leaves the function, a
\* 429 starts the timer of the delay, any other response is returned.
BackoffFetch(o) ==
  /\ backoff.pc = "fetch"
  /\ LET b == [backoff EXCEPT !.attempts = Append(@, o)] IN
       backoff' =
         IF o.kind = "reject"
         THEN [b EXCEPT !.pc = "thrown", !.result = Thrown("network error")]
         ELSE IF o.status = 429
         THEN [b EXCEPT !.pc = "sleep", !.sleeps = Append(@, BackoffDelay(b.i))]
         ELSE [b EXCEPT !.pc = "returned", !.result = o]

\* The timer fires: continue, i++ and the loop test.
BackoffWake ==
  /\ backoff.pc = "sleep"
  /\ backoff' = BackoffLoop([backoff EXCEPT !.i = @ + 1])

BackoffNext ==
  \/ BackoffStart /\ Frame({"backoff"})
  \/ (\E o \in FetchOutcomes : BackoffFetch(o)) /\ Frame({"backoff"})
  \/ BackoffWake /\ Frame({"backoff"})

SpecBackoff == BackoffInit /\ [][BackoffNext]_vars

\* The attempts that were answered 429.
Backoff429 ==
  {k \in 1..Len(backoff.attempts) :
     backoff.attempts[k].kind = "response" /\ backoff.attempts[k].status = 429}

\* C16: at most maxRetries fetches; no fetch follows a response other than
\* 429, and that response is what is returned; the i-th 429 (from 0) is
\* followed by a wait of 2^i * 1000 ms; 'Max retries reached' is thrown
\* exactly when all maxRetries attempts were answered 429.
C16_BackoffContract ==
  /\ Len(backoff.attempts) <= backoff.maxRetries
  /\ \A k \in 1..(Len(backoff.attempts) - 1) : k \in Backoff429
  /\ backoff.pc = "returned" =>
       /\ backoff.attempts # << >>
       /\ backoff.result = backoff.attempts[Len(backoff.attempts)]
       /\ Len(backoff.attempts) \notin Backoff429
  /\ Len(backoff.sleeps) = Cardinality(Backoff429)
  /\ \A k \in 1..Len(backoff.sleeps) :
       backoff.sleeps[k] = <<1000, 2000, 4000, 8000, 16000, 32000, 64000>>[k]
  /\ backoff.pc \in {"returned", "thrown"} =>
       (backoff.result = Thrown("Max retries reached")
          <=> Cardinality(Backoff429) = backoff.maxRetries)

C16_Witness ==
  /\ backoff.maxRetries = 3
  /\ backoff.pc = "thrown"
  /\ backoff.result = Thrown("Max retries reached")
  /\ backoff.sleeps = <<1000, 2000, 4000>>

(***************************************************************************)
(* fetchWithRetry(url, options, maxRetries) of the API guide.              *)
(*                                                                         *)
(* retry.maxRetries  the parameter                                         *)
(* retry.i           the loop variable                                     *)
(* retry.pc          where the call is: "start", "fetch", "sleep" (either  *)
(*                   await of a timer), "returned", "thrown"               *)
(* retry.result      what the call returned, or the error it threw        *)
(* retry.attempts    history: what each fetch gave                         *)
(* retry.errors      history: the error caught in each failed attempt      *)
(***************************************************************************)

\* The largest maxRetries a call is made with.
MaxRetryRetries == 3

\* The value of `await response.json()` for an ok response.
Json(response) == [kind |-> "json", of |-> response.status]

\* The value of a call that ends without a return statement.
ReturnedUndefined == [kind |-> "undefined"]

\* fetchWithRetry(url, options, maxRetries) is called.
RetryInit ==
  /\ \E m \in 1..MaxRetryRetries :
       retry = [ maxRetries |-> m, i |-> 0, pc |-> "start",
                 result |-> Unloaded, attempts |-> << >>, errors |-> << >> ]
  /\ Off({"retry"})

\* The loop test i < maxRetries; the function ends after the loop.
RetryLoop(r) ==
  IF r.i < r.maxRetries
  THEN [r EXCEPT !.pc = "fetch"]
  ELSE [r EXCEPT !.pc = "returned", !.result = ReturnedUndefined]

\* let i = 0 and the first loop test.
RetryStart ==
  /\ retry.pc = "start"
  /\ retry' = RetryLoop([retry EXCEPT !.i = 0])

\* catch (error): on the last iteration the error is thrown again,
\* otherwise the timer of the delay is started.
RetryCatch(r, error) ==
  IF r.i = r.maxRetries - 1
  THEN [r EXCEPT !.errors = Append(@, error), !.pc = "thrown", !.result = error]
  ELSE [r EXCEPT !.errors = Append(@, error), !.pc = "sleep"]

\* response.ok: a status of 200 to 299.
Ok(response) == response.status >= 200 /\ response.status <= 299

\* One pass of the try block: await fetch(url, options); a 429 starts the
\* timer and continues; a response that is not ok throws `HTTP <status>`;
\* an ok response is parsed and returned; what is thrown, a rejected fetch
\* included, is caught.
RetryFetch(o) ==
  /\ retry.pc = "fetch"
  /\ LET r == [retry EXCEPT !.attempts = Append(@, o)] IN
       retry' =
         IF o.kind = "reject" THEN RetryCatch(r, Thrown("network error"))
         ELSE IF o.status = 429 THEN [r EXCEPT !.pc = "sleep"]
         ELSE IF ~Ok(o) THEN RetryCatch(r, Thrown("HTTP " \o ToString(o.status)))
         ELSE [r EXCEPT !.pc = "returned", !.result = Json(o)]

\* The timer fires: the iteration ends, i++ and the loop test.
RetryWake ==
  /\ retry.pc = "sleep"
  /\ retry' = RetryLoop([retry EXCEPT !.i = @ + 1])

RetryNext ==
  \/ RetryStart /\ Frame({"retry"})
  \/ (\E o \in FetchOutcomes : RetryFetch(o)) /\ Frame({"retry"})
  \/ RetryWake /\ Frame({"retry"})

SpecRetry == RetryInit /\ [][RetryNext]_vars

\* C17: at most maxRetries fetches, and a call that has ended has either
\* returned the parsed JSON of an ok response or thrown the error of the
\* last failed attempt.
C17_RetryTwoOutcomes ==
  /\ Len(retry.attempts) <= retry.maxRetries
  /\ retry.pc \in {"returned", "thrown"} =>
       LET last == retry.attempts[Len(retry.attempts)] IN
         \/ /\ retry.pc = "returned"
            /\ last.kind = "response" /\ Ok(last)
            /\ retry.result = Json(last)
         \/ /\ retry.pc = "thrown"
            /\ retry.errors # << >>
            /\ retry.result = retry.errors[Len(retry.errors)]

(***************************************************************************)
(* fetchWithAuth of the API guide, as the function of "Refresh Tokens" and *)
(* as the method of AuthService.                                           *)
(*                                                                         *)
(* Tokens are strings; "null" and "undefined" are what those values read   *)
(* as once put in a header or in localStorage.                             *)
(*                                                                         *)
(* auth.variant   "function" or "service": which of the two runs           *)
(* auth.storage   localStorage: accessToken and refreshToken               *)
(* auth.location  window.location                                          *)
(* auth.pc        where the call is: "start", "first", "refresh", "retry"  *)
(*                (awaiting that response), "returned", "thrown"           *)
(* auth.result    what the call returned, or the error it threw           *)
(* auth.call      the number of the call                                   *)
(* auth.storage0  history: localStorage when the call started              *)
(* auth.sent      history: the requests the call has sent, each with the   *)
(*                token it carries                                         *)
(* auth.first     history: the response to the first request               *)
(* auth.refreshed history: the response to the refresh request             *)
(***************************************************************************)

\* Calls of fetchWithAuth in one run, one after the other.
MaxAuthCalls == 2

\* The access token the server issues in the n-th call.
NewToken(n) == "t" \o ToString(n)

\* What the request of the url can give.
AuthOutcomes == {Response(s) : s \in {200, 401, 403}} \cup {NetworkError}

\* What POST /api/auth/refresh can give: a new access token; an error
\* status with a JSON body that holds no accessToken; an error status with
\* a body that is not JSON; a rejection.
RefreshOutcomes(n) ==
  { [kind |-> "response", status |-> 200, json |-> TRUE,  accessToken |-> NewToken(n)],
    [kind |-> "response", status |-> 401, json |-> TRUE,  accessToken |-> "undefined"],
    [kind |-> "response", status |-> 500, json |-> FALSE, accessToken |-> "undefined"],
    [kind |-> "reject",   status |-> 0,   json |-> FALSE, accessToken |-> "undefined"] }

\* A request with its Authorization header (its body, for the refresh).
Request(to, token) == [to |-> to, token |-> token]

\* The page is loaded, with or without an access token in localStorage.
AuthInit ==
  /\ \E v \in {"function", "service"}, t \in {"t0", "null"} :
       LET storage == [accessToken |-> t, refreshToken |-> "r0"] IN
         auth = [ variant |-> v, storage |-> storage, location |-> "/app",
                  pc |-> "start", result |-> Unloaded, call |-> 1,
                  storage0 |-> storage, sent |-> << >>,
                  first |-> Unloaded, refreshed |-> Unloaded ]
  /\ Off({"auth"})

\* let accessToken = localStorage.getItem('accessToken') and the first
\* fetch(url, ...) with `Bearer ${accessToken}`.
AuthStart ==
  /\ auth.pc = "start"
  /\ auth' = [ auth EXCEPT
                 !.pc = "first",
                 !.sent = Append(@, Request("url", auth.storage.accessToken)) ]

\* The first response: a rejection leaves the call; a 401 reads the refresh
\* token and posts it to /api/auth/refresh; any other response is returned.
AuthFirst(o) ==
  /\ auth.pc = "first"
  /\ auth' =
       IF o.kind = "reject"
       THEN [auth EXCEPT !.pc = "thrown", !.result = Thrown("network error")]
       ELSE IF o.status = 401
       THEN [ auth EXCEPT
                !.first = o,
                !.pc = "refresh",
                !.sent = Append(@, Request("refresh", auth.storage.refreshToken)) ]
       ELSE [auth EXCEPT !.first = o, !.pc = "returned", !.result = o]

\* An error thrown while refreshing or retrying: the function lets it out;
\* the method catches it, sets window.location = '/login' and throws it
\* again.
AuthFail(a, error) ==
  IF a.variant = "service"
  THEN [a EXCEPT !.location = "/login", !.pc = "thrown", !.result = error]
  ELSE [a EXCEPT !.pc = "thrown", !.result = error]

\* The retry sent with the token read at the start of the call.
RetryToken_stale(a, newToken) == a.sent[1].token

\* The token of the retry: `Bearer ${newToken}` in the function,
\* `Bearer ${accessToken}` after accessToken = await
\* this.refreshAccessToken() in the method.
RetryToken(a, newToken) == newToken

\* The refresh response: a rejected fetch or json() throws; otherwise the
\* accessToken of the body, whatever it is, is stored and the request is
\* sent again with it.
AuthRefresh(o) ==
  /\ auth.pc = "refresh"
  /\ LET a == [auth EXCEPT !.refreshed = o] IN
       auth' =
         IF o.kind = "reject" THEN AuthFail(a, Thrown("network error"))
         ELSE IF ~o.json THEN AuthFail(a, Thrown("SyntaxError"))
         ELSE [ a EXCEPT
                  !.storage.accessToken = o.accessToken,
                  !.pc = "retry",
                  !.sent = Append(@, Request("url", RetryToken(a, o.accessToken))) ]

\* The response to the retry is returned; a rejection is thrown, and in the
\* method it is thrown inside the try block.
AuthRetry(o) ==
  /\ auth.pc = "retry"
  /\ auth' =
       IF o.kind = "reject"
       THEN AuthFail(auth, Thrown("network error"))
       ELSE [auth EXCEPT !.pc = "returned", !.result = o]

\* The call has ended and fetchWithAuth is called again.
AuthCallAgain ==
  /\ auth.pc \in {"returned", "thrown"}
  /\ auth.call < MaxAuthCalls
  /\ auth' = [ auth EXCEPT
                 !.pc = "start", !.result = Unloaded, !.call = @ + 1,
                 !.storage0 = auth.storage, !.sent = << >>,
                 !.first = Unloaded, !.refreshed = Unloaded ]

AuthNext ==
  \/ AuthStart /\ Frame({"auth"})
  \/ (\E o \in AuthOutcomes : AuthFirst(o)) /\ Frame({"auth"})
  \/ (\E o \in RefreshOutcomes(auth.call) : AuthRefresh(o)) /\ Frame({"auth"})
  \/ (\E o \in AuthOutcomes : AuthRetry(o)) /\ Frame({"auth"})
  \/ AuthCallAgain /\ Frame({"auth"})

SpecAuth == AuthInit /\ [][AuthNext]_vars

\* The requests of the call sent to `to`.
AuthSentTo(to) == {k \in 1..Len(auth.sent) : auth.sent[k].to = to}

\* The refresh request has been answered, and not with a new token.
AuthRefreshFailed ==
  /\ auth.refreshed # Unloaded
  /\ (auth.refreshed.kind = "reject" \/ ~Ok(auth.refreshed))

\* C18: per call the request is sent at most twice and the refresh at most
\* once, a refresh is sent only after a 401 to the first attempt, once the
\* refresh has issued a token that token is the stored accessToken and the
\* one the retry carries (a retry always carries the stored accessToken),
\* and a first response other than 401 is returned with no refresh and
\* localStorage as it was.
C18_AuthRefreshOnce ==
  /\ Cardinality(AuthSentTo("url")) <= 2
  /\ Cardinality(AuthSentTo("refresh")) <= 1
  /\ AuthSentTo("refresh") # {} => (auth.first # Unloaded /\ auth.first.status = 401)
  /\ (auth.first # Unloaded /\ auth.first.status = 401) => AuthSentTo("refresh") # {}
  /\ Cardinality(AuthSentTo("url")) = 2 =>
       /\ auth.refreshed # Unloaded
       /\ auth.sent[Len(auth.sent)].token = auth.storage.accessToken
       /\ auth.storage.accessToken = auth.refreshed.accessToken
       /\ Ok(auth.refreshed) => auth.storage.accessToken = NewToken(auth.call)
  /\ (auth.first # Unloaded /\ auth.first.status # 401) =>
       /\ auth.pc = "returned"
       /\ auth.result = auth.first
       /\ Len(auth.sent) = 1
       /\ auth.storage = auth.storage0

C18_Witness ==
  /\ auth.pc = "returned"
  /\ auth.first = Response(401)
  /\ Len(auth.sent) = 3
  /\ auth.storage0.accessToken = "t0"
  /\ auth.storage.accessToken = NewToken(auth.call)
  /\ auth.sent[3] = Request("url", NewToken(auth.call))
  /\ auth.result = Response(200)

\* C19: in AuthService.fetchWithAuth, when the refresh fails the request is
\* not retried, the stored accessToken is left as it was, and the call ends
\* redirected to '/login' with the error thrown.
C19_RefreshFailureRedirects ==
  (auth.variant = "service" /\ AuthRefreshFailed) =>
    /\ Cardinality(AuthSentTo("url")) = 1
    /\ auth.storage.accessToken = auth.storage0.accessToken
    /\ auth.pc = "thrown"
    /\ auth.location = "/login"
    /\ auth.result.kind = "error"

(***************************************************************************)
(* The axios response interceptor of the API guide.                        *)
(*                                                                         *)
(* axios.location  window.location                                         *)
(* axios.issued    the number of access tokens refreshAccessToken has      *)
(*                 been given                                              *)
(* axios.requests  the requests the page has made through axios, each a    *)
(*                 record of                                               *)
(*    config     the request config: _retry and the Authorization token    *)
(*    pc         "flight" (sent, not answered), "refreshing" (the handler  *)
(*               awaits refreshAccessToken), "resolved", "rejected"        *)
(*    result     what the promise of the request settled to                *)
(*    sent       history: the config of every send of the request          *)
(*    answers    history: what each send was answered                      *)
(*    refreshes  history: the calls of refreshAccessToken for it           *)
(***************************************************************************)

\* The requests the page makes through axios.
MaxAxiosRequests == 2

\* What a request sent by axios can be answered.
AxiosOutcomes == {Response(s) : s \in {200, 401, 403, 500}} \cup {NetworkError}

\* The error axios rejects with for a response outside 2xx: error.config is
\* the config of the request and error.response the response.
AxiosError(response) == [kind |-> "error", message |-> "AxiosError", response |-> response]

\* Each request is sent with the token at hand and no _retry in its config.
AxiosInit ==
  /\ axios = [ location |-> "/app", issued |-> 0,
               requests |-> [ r \in 1..MaxAxiosRequests |->
                   LET config == [_retry |-> FALSE, token |-> "t0"] IN
                     [ config |-> config, pc |-> "flight", result |-> Unloaded,
                       sent |-> <<config>>, answers |-> << >>, refreshes |-> 0 ] ] ]
  /\ Off({"axios"})

\* The handler without `originalRequest._retry = true`.
MarkRetried_unmarked(config) == config

\* originalRequest._retry = true
MarkRetried(config) == [config EXCEPT !._retry = TRUE]

\* A send of request r is answered. A 2xx response goes through
\* `response => response`. Anything else runs the error handler: without a
\* response, reading error.response.status throws; a 401 on a config not
\* marked _retry marks it and calls refreshAccessToken; every other error
\* is rejected.
AxiosAnswer(r, o) ==
  /\ r \in DOMAIN axios.requests
  /\ axios.requests[r].pc = "flight"
  /\ LET q == [axios.requests[r] EXCEPT !.answers = Append(@, o)] IN
       axios' = [ axios EXCEPT !.requests[r] =
         IF o.kind = "reject"
         THEN [q EXCEPT !.pc = "rejected", !.result = Thrown("TypeError")]
         ELSE IF Ok(o)
         THEN [q EXCEPT !.pc = "resolved", !.result = o]
         ELSE IF o.status = 401 /\ ~q.config._retry
         THEN [ q EXCEPT !.config = MarkRetried(@), !.pc = "refreshing",
                         !.refreshes = @ + 1 ]
         ELSE [q EXCEPT !.pc = "rejected", !.result = AxiosError(o)] ]

\* refreshAccessToken() resolves: the header is set to the new token and
\* axios(originalRequest) sends the same config again.
AxiosRefreshed(r) ==
  /\ r \in DOMAIN axios.requests
  /\ axios.requests[r].pc = "refreshing"
  /\ LET q == axios.requests[r]
         config == [q.config EXCEPT !.token = NewToken(axios.issued + 1)] IN
       axios' = [ axios EXCEPT
                    !.issued = @ + 1,
                    !.requests[r] = [ q EXCEPT !.config = config, !.pc = "flight",
                                               !.sent = Append(@, config) ] ]

\* refreshAccessToken() rejects: window.location = '/login' and the
\* refresh error is rejected.
AxiosRefreshFailed(r) ==
  /\ r \in DOMAIN axios.requests
  /\ axios.requests[r].pc = "refreshing"
  /\ axios' = [ axios EXCEPT
                  !.location = "/login",
                  !.requests[r] = [ @ EXCEPT !.pc = "rejected",
                                             !.result = Thrown("refreshError") ] ]

AxiosNext ==
  \/ (\E r \in 1..MaxAxiosRequests, o \in AxiosOutcomes : AxiosAnswer(r, o)) /\ Frame({"axios"})
  \/ (\E r \in 1..MaxAxiosRequests : AxiosRefreshed(r)) /\ Frame({"axios"})
  \/ (\E r \in 1..MaxAxiosRequests : AxiosRefreshFailed(r)) /\ Frame({"axios"})

SpecAxios == AxiosInit /\ [][AxiosNext]_vars

\* C20: a request is sent at most twice and refreshed for at most once; its
\* second send carries _retry, and a 401 to it is rejected with that error,
\* with no further refresh.
C20_RetryAtMostOnce ==
  \A r \in DOMAIN axios.requests :
    LET q == axios.requests[r] IN
      /\ Len(q.sent) <= 2
      /\ q.refreshes <= 1
      /\ Len(q.sent) = 2 => (q.sent[2]._retry /\ q.refreshes = 1)
      /\ (Len(q.answers) = 2 /\ q.answers[2] = Response(401)) =>
           /\ q.pc = "rejected"
           /\ q.result = AxiosError(Response(401))

C20_Witness ==
  \E r \in DOMAIN axios.requests :
    LET q == axios.requests[r] IN
      /\ q.answers = <<Response(401), Response(401)>>
      /\ q.pc = "rejected"
      /\ q.refreshes = 1
      /\ q.sent[2].token = "t1"

(***************************************************************************)
(* The useEffect data-fetching pattern of the TypeScript guide.            *)
(*                                                                         *)
(* eff.instances  the instances of the component that were mounted, each   *)
(*                a record of                                              *)
(*    isMounted  the flag of the effect's closure                          *)
(*    mounted    whether React still has the instance in the tree          *)
(*    pc         where fetchData is: "fetch" (awaits fetch), "json"        *)
(*               (awaits response.json()), "done"                          *)
(*    response   what fetch resolved to                                    *)
(*    users, error, loading   the state cells the setters write            *)
(*    setters    history: every call of a setter, with whether the         *)
(*               instance was mounted when it was made                     *)
(***************************************************************************)

\* The instances of the component that are mounted in a run.
MaxEffMounts == 2

\* What fetch('/api/users') can give.
EffOutcomes == {Response(s) : s \in {200, 404}} \cup {NetworkError}

\* Nothing is mounted yet.
EffInit ==
  /\ eff = [instances |-> << >>]
  /\ Off({"eff"})

\* A call of a state setter by instance c: the cell is written and the
\* call is remembered.
EffSet(c, setter, cell, value) ==
  [ c EXCEPT ![cell] = value,
             !.setters = Append(@, [ setter |-> setter, value |-> value,
                                     mounted |-> c.mounted ]) ]

\* if (isMounted) setter(value)
EffGuarded(c, setter, cell, value) ==
  IF c.isMounted THEN EffSet(c, setter, cell, value) ELSE c

\* A cleanup that leaves the flag as it is.
EffCleanup_kept(c) == c

\* return () => { isMounted = false; }
EffCleanup(c) == [c EXCEPT !.isMounted = FALSE]

\* catch (err) { if (isMounted) setError(err.message) } and the finally
\* block after it.
EffCatch(c, message) ==
  [ EffGuarded(EffGuarded(c, "setError", "error", message),
               "setLoading", "loading", FALSE)
    EXCEPT !.pc = "done" ]

\* An instance is mounted and its effect runs: isMounted = true, and
\* fetchData() runs up to its first await, through setLoading(true).
EffMount ==
  /\ Len(eff.instances) < MaxEffMounts
  /\ LET c == [ isMounted |-> TRUE, mounted |-> TRUE, pc |-> "fetch",
                response |-> Unloaded, users |-> Unloaded, error |-> Unloaded,
                loading |-> Unloaded, setters |-> << >> ] IN
       eff' = [eff EXCEPT !.instances = Append(@, EffSet(c, "setLoading", "loading", TRUE))]

\* await fetch('/api/users') settles: a response, whatever its status,
\* goes on to response.json(); a rejection is caught.
EffFetched(i, o) ==
  /\ i \in DOMAIN eff.instances
  /\ eff.instances[i].pc = "fetch"
  /\ LET c == eff.instances[i] IN
       eff' = [ eff EXCEPT !.instances[i] =
                  IF o.kind = "reject" THEN EffCatch(c, "Failed to fetch")
                  ELSE [c EXCEPT !.pc = "json", !.response = o] ]

\* await response.json() settles: the data goes to setUsers and the
\* finally block runs; a body that is not JSON is caught.
EffParsed(i, parsed) ==
  /\ i \in DOMAIN eff.instances
  /\ eff.instances[i].pc = "json"
  /\ LET c == eff.instances[i] IN
       eff' = [ eff EXCEPT !.instances[i] =
                  IF parsed
                  THEN [ EffGuarded(EffGuarded(c, "setUsers", "users", Json(c.response)),
                                    "setLoading", "loading", FALSE)
                         EXCEPT !.pc = "done" ]
                  ELSE EffCatch(c, "SyntaxError") ]

\* React unmounts instance i and runs the cleanup of its effect.
EffUnmount(i) ==
  /\ i \in DOMAIN eff.instances
  /\ eff.instances[i].mounted
  /\ eff' = [ eff EXCEPT !.instances[i] =
                [EffCleanup(eff.instances[i]) EXCEPT !.mounted = FALSE] ]

EffNext ==
  \/ EffMount /\ Frame({"eff"})
  \/ (\E i \in 1..MaxEffMounts, o \in EffOutcomes : EffFetched(i, o)) /\ Frame({"eff"})
  \/ (\E i \in 1..MaxEffMounts, parsed \in BOOLEAN : EffParsed(i, parsed)) /\ Frame({"eff"})
  \/ (\E i \in 1..MaxEffMounts : EffUnmount(i)) /\ Frame({"eff"})

SpecEffect == EffInit /\ [][EffNext]_vars

\* C21: every call of a state setter (setLoading, setUsers, setError) was
\* made while the instance was mounted, whenever the fetch or the parse
\* settled.
C21_NoSetterAfterUnmount ==
  \A i \in DOMAIN eff.instances :
    \A k \in DOMAIN eff.instances[i].setters : eff.instances[i].setters[k].mounted

\* An instance was unmounted while its fetch was in flight, the fetch and
\* the parse then settled, and only setLoading(true) was ever called.
C21_Witness ==
  \E i \in DOMAIN eff.instances :
    LET c == eff.instances[i] IN
      /\ ~c.mounted
      /\ c.pc = "done"
      /\ c.response = Response(200)
      /\ Len(c.setters) = 1
      /\ c.loading = TRUE

(***************************************************************************)
(* The useFetch custom hook of the TypeScript guide.                       *)
(*                                                                         *)
(* uf.url       the url the component last rendered the hook with          *)
(* uf.data, uf.loading, uf.error   the three state cells of the hook       *)
(* uf.requests  the calls of fetchData the effect has made, each a record  *)
(*              of the url it closed over, where it is ("fetch", "json",   *)
(*              "done") and the response fetch resolved to                 *)
(***************************************************************************)

\* The calls of fetchData in a run: the first render and the url changes.
MaxUfRequests == 3

\* The urls the component renders the hook with.
UfUrls == {"/api/users", "/api/posts"}

\* What fetch(url) can give.
UfOutcomes == {Response(s) : s \in {200, 404}} \cup {NetworkError}

\* null, the initial value of data and of error.
Null == [null |-> TRUE]

\* The value of `await response.json()` for the response to a url.
UfResult(u) == [kind |-> "json", url |-> u]

\* The error caught by fetchData for a url.
UfError(u, message) == [kind |-> "error", url |-> u, message |-> message]

\* fetchData() up to its first await: fetch(url) is in flight.
UfFetchData(u) == [url |-> u, pc |-> "fetch", response |-> Unloaded]

\* The first render with some url: useState(null), useState(true),
\* useState(null), and the effect has called fetchData.
UfInit ==
  /\ \E u \in UfUrls :
       uf = [ url |-> u, data |-> Null, loading |-> TRUE, error |-> Null,
              requests |-> <<UfFetchData(u)>> ]
  /\ Off({"uf"})

\* The component renders the hook with another url: the dependency
\* changed, so the effect runs again and calls fetchData. The effect has
\* no cleanup and touches no state cell before its first await.
UfRender(u) ==
  /\ Len(uf.requests) < MaxUfRequests
  /\ u # uf.url
  /\ uf' = [uf EXCEPT !.url = u, !.requests = Append(@, UfFetchData(u))]

\* await fetch(url) settles for call r: a response, whatever its status,
\* goes on to response.json(); a rejection runs setError(err) and then
\* setLoading(false).
UfFetched(r, o) ==
  /\ r \in DOMAIN uf.requests
  /\ uf.requests[r].pc = "fetch"
  /\ IF o.kind = "reject"
     THEN uf' = [ uf EXCEPT !.error = UfError(uf.requests[r].url, "Failed to fetch"),
                            !.loading = FALSE,
                            !.requests[r].pc = "done" ]
     ELSE uf' = [uf EXCEPT !.requests[r].pc = "json", !.requests[r].response = o]

\* await response.json() settles for call r: setData(result), or
\* setError(err) for a body that is not JSON; then setLoading(false).
UfParsed(r, parsed) ==
  /\ r \in DOMAIN uf.requests
  /\ uf.requests[r].pc = "json"
  /\ IF parsed
     THEN uf' = [ uf EXCEPT !.data = UfResult(uf.requests[r].url),
                            !.loading = FALSE,
                            !.requests[r].pc = "done" ]
     ELSE uf' = [ uf EXCEPT !.error = UfError(uf.requests[r].url, "SyntaxError"),
                            !.loading = FALSE,
                            !.requests[r].pc = "done" ]

UfNext ==
  \/ (\E u \in UfUrls : UfRender(u)) /\ Frame({"uf"})
  \/ (\E r \in 1..MaxUfRequests, o \in UfOutcomes : UfFetched(r, o)) /\ Frame({"uf"})
  \/ (\E r \in 1..MaxUfRequests, parsed \in BOOLEAN : UfParsed(r, parsed)) /\ Frame({"uf"})

SpecUseFetch == UfInit /\ [][UfNext]_vars

\* The call of fetchData made for the current url: the last one.
UfCurrent == uf.requests[Len(uf.requests)]

\* C22: when loading is false, data or error is the result of fetching
\* the current url, and loading is true while the request for the current
\* url is in flight.
C22_ReportsCurrentUrl ==
  /\ ~uf.loading =>
       \/ uf.data = UfResult(uf.url)
       \/ (uf.error # Null /\ uf.error.url = uf.url)
  /\ UfCurrent.pc # "done" => uf.loading

(***************************************************************************)
(* The useWebSocket hook of the API guide.                                 *)
(*                                                                         *)
(* wsk.url          the url the component last rendered the hook with      *)
(* wsk.mounted      whether the component is mounted                       *)
(* wsk.isConnected  the state cell of the hook                             *)
(* wsk.current      ws.current: the index in wsk.sockets of the socket     *)
(*                  the ref holds                                          *)
(* wsk.sockets      the WebSockets the effect has created, each with its   *)
(*                  url and readyState; the handlers of a socket stay on   *)
(*                  it for as long as it lives                             *)
(* wsk.closes       history: for each run of the cleanup, the socket its   *)
(*                  effect run created and the socket it closed            *)
(* The messages cell is left out: no handler reads it to decide anything.  *)
(***************************************************************************)

\* The WebSockets created in a run: the first render and the url changes.
MaxWsSockets == 3

\* The urls the component renders the hook with.
WsUrls == {"ws://a", "ws://b"}

\* new WebSocket(url)
NewWebSocket(u) == [url |-> u, readyState |-> "CONNECTING"]

\* socket.close(): a socket that is connecting or open starts to close,
\* and its close event comes later; otherwise nothing happens.
WsCloseCall(socket) ==
  IF socket.readyState \in {"CONNECTING", "OPEN"}
  THEN [socket EXCEPT !.readyState = "CLOSING"]
  ELSE socket

\* A state setter of the hook: nothing is written once unmounted.
SetIsConnected(w, value) ==
  IF w.mounted THEN [w EXCEPT !.isConnected = value] ELSE w

\* The cleanup of the effect run that created socket `run`:
\* () => ws.current.close()
WsCleanup(w, run) ==
  [ w EXCEPT !.sockets[w.current] = WsCloseCall(@),
             !.closes = Append(@, [run |-> run, closed |-> w.current]) ]

\* The effect body: ws.current = new WebSocket(url), and the handlers
\* are put on it.
WsEffect(w, u) ==
  [ w EXCEPT !.sockets = Append(@, NewWebSocket(u)),
             !.current = Len(w.sockets) + 1 ]

\* The first render with some url: useState(false), and the effect has
\* run.
WsInit ==
  /\ \E u \in WsUrls :
       wsk = WsEffect([ url |-> u, mounted |-> TRUE, isConnected |-> FALSE,
                        current |-> 0, sockets |-> << >>, closes |-> << >> ], u)
  /\ Off({"wsk"})

\* The component renders the hook with another url: React runs the
\* cleanup of the last effect run and then the effect.
WsRender(u) ==
  /\ wsk.mounted
  /\ Len(wsk.sockets) < MaxWsSockets
  /\ u # wsk.url
  /\ wsk' = WsEffect([WsCleanup(wsk, Len(wsk.sockets)) EXCEPT !.url = u], u)

\* The open event of socket s: onopen = () => setIsConnected(true)
WsOnOpen(s) ==
  /\ s \in DOMAIN wsk.sockets
  /\ wsk.sockets[s].readyState = "CONNECTING"
  /\ wsk' = SetIsConnected([wsk EXCEPT !.sockets[s].readyState = "OPEN"], TRUE)

\* The close event of socket s, after close() or because the server or
\* the network ended the connection: onclose = () => setIsConnected(false)
WsOnClose(s) ==
  /\ s \in DOMAIN wsk.sockets
  /\ wsk.sockets[s].readyState # "CLOSED"
  /\ wsk' = SetIsConnected([wsk EXCEPT !.sockets[s].readyState = "CLOSED"], FALSE)

\* The component unmounts: React runs the cleanup of the last effect run.
WsUnmount ==
  /\ wsk.mounted
  /\ wsk' = [WsCleanup(wsk, Len(wsk.sockets)) EXCEPT !.mounted = FALSE]

WsNext ==
  \/ (\E u \in WsUrls : WsRender(u)) /\ Frame({"wsk"})
  \/ (\E s \in 1..MaxWsSockets : WsOnOpen(s)) /\ Frame({"wsk"})
  \/ (\E s \in 1..MaxWsSockets : WsOnClose(s)) /\ Frame({"wsk"})
  \/ WsUnmount /\ Frame({"wsk"})

SpecWebSocket == WsInit /\ [][WsNext]_vars

\* C23: while the component is mounted, isConnected is true exactly when
\* the socket in ws.current is open, and every cleanup closed the socket
\* its own effect run created.
C23_ConnectedIffCurrentOpen ==
  /\ wsk.mounted =>
       (wsk.isConnected <=> wsk.sockets[wsk.current].readyState = "OPEN")
  /\ \A k \in DOMAIN wsk.closes : wsk.closes[k].closed = wsk.closes[k].run

(***************************************************************************)
(* The Database singleton of the design patterns guide.                    *)
(*                                                                         *)
(* Objects are told apart by the order of their construction: object k is  *)
(* the k-th Database constructed.                                          *)
(*                                                                         *)
(* db.instance  the static field Database.instance: Null or an object      *)
(* db.objects   the number of Databases constructed so far                 *)
(* db.made      history: the objects constructed inside getInstance        *)
(* db.calls     history: the calls of getInstance, with the variable the   *)
(*              result was bound to and the object returned                *)
(***************************************************************************)

\* Calls of getInstance in one run.
MaxDbCalls == 4

\* Calls of `new Database()` made by other code in one run.
MaxDbDirect == 2

\* The variables the result of getInstance is bound to.
DbCallers == {"db1", "db2"}

\* static instance = null
DbInit ==
  /\ db = [instance |-> Null, objects |-> 0, made |-> {}, calls |-> << >>]
  /\ Off({"db"})

\* The k-th Database constructed.
DbObject(k) == [object |-> k]

\* new Database(): the next object.
NewDatabase(d) == [d EXCEPT !.objects = @ + 1]

\* getInstance without the test of Database.instance.
GetInstance_unguarded(d) ==
  LET n == NewDatabase(d) IN
    [ n EXCEPT !.instance = DbObject(n.objects),
               !.made = @ \cup {DbObject(n.objects)} ]

\* if (!Database.instance) { Database.instance = new Database(); }
GetInstance(d) ==
  IF d.instance = Null
  THEN LET n == NewDatabase(d) IN
         [ n EXCEPT !.instance = DbObject(n.objects),
                    !.made = @ \cup {DbObject(n.objects)} ]
  ELSE d

\* const caller = Database.getInstance(): return Database.instance
DbGetInstance(caller) ==
  /\ Len(db.calls) < MaxDbCalls
  /\ LET d == GetInstance(db) IN
       db' = [d EXCEPT !.calls = Append(@, [caller |-> caller, returned |-> d.instance])]

\* Other code constructs a Database itself: the constructor is public.
DbConstruct ==
  /\ db.objects - Cardinality(db.made) < MaxDbDirect
  /\ db' = NewDatabase(db)

DbNext ==
  \/ (\E caller \in DbCallers : DbGetInstance(caller)) /\ Frame({"db"})
  \/ DbConstruct /\ Frame({"db"})

SpecSingleton == DbInit /\ [][DbNext]_vars

\* C25: over the calls of getInstance at most one Database is constructed
\* inside it, and every call returns that object.
C25_SingleInstance ==
  /\ Cardinality(db.made) <= 1
  /\ \A k \in DOMAIN db.calls :
       /\ db.calls[k].returned \in db.made
       /\ db.calls[k].returned = db.calls[1].returned
       /\ db.calls[k].returned = db.instance

\* db1 and db2 were obtained with a Database constructed by other code in
\* between, and are the same object.
C25_Witness ==
  /\ Len(db.calls) >= 2
  /\ db.calls[1].caller = "db1"
  /\ db.calls[2].caller = "db2"
  /\ db.calls[1].returned = db.calls[2].returned
  /\ db.objects > Cardinality(db.made)

(***************************************************************************)
(* The RemoteControl of the design patterns guide, with TurnOnCommands.    *)
(*                                                                         *)
(* rc.history     this.history: the array of commands; each entry also     *)
(*                carries the number of the execute call that pushed it    *)
(* rc.lights      the light of each command: "ON" or "OFF"                 *)
(* rc.executions  history: the command of every execute call               *)
(* rc.undone      history: the execute calls whose command was undone, in  *)
(*                the order of the undos                                   *)
(* rc.undoCalls   history: the number of undo calls                        *)
(***************************************************************************)

\* Calls of execute in one run.
MaxRcExecutes == 3

\* Calls of undo in one run.
MaxRcUndos == 4

\* The command objects: a TurnOnCommand for each of two lights. The same
\* object can be executed more than once.
RcCommands == {"turnOnA", "turnOnB"}

\* constructor() { this.history = []; }
RcInit ==
  /\ rc = [ history |-> << >>, lights |-> [c \in RcCommands |-> "OFF"],
            executions |-> << >>, undone |-> << >>, undoCalls |-> 0 ]
  /\ Off({"rc"})

\* An array method that takes the first element (shift).
Pop_shift(array) ==
  IF array = << >> THEN [value |-> Undefined, array |-> array]
  ELSE [value |-> Head(array), array |-> Tail(array)]

\* array.pop(): the last element is removed and returned; undefined for
\* an empty array.
Pop(array) ==
  IF array = << >> THEN [value |-> Undefined, array |-> array]
  ELSE [value |-> array[Len(array)], array |-> SubSeq(array, 1, Len(array) - 1)]

\* execute(command): command.execute() turns its light on, and the
\* command is pushed.
RcExecute(command) ==
  /\ Len(rc.executions) < MaxRcExecutes
  /\ rc' = [ rc EXCEPT
               !.lights[command] = "ON",
               !.history = Append(@, [ command |-> command,
                                       execution |-> Len(rc.executions) + 1 ]),
               !.executions = Append(@, command) ]

\* undo(): this.history.pop()?.undo(); the undo of a TurnOnCommand turns
\* its light off.
RcUndo ==
  /\ rc.undoCalls < MaxRcUndos
  /\ LET popped == Pop(rc.history) IN
       IF popped.value = Undefined
       THEN rc' = [rc EXCEPT !.history = popped.array, !.undoCalls = @ + 1]
       ELSE rc' = [ rc EXCEPT
                      !.history = popped.array,
                      !.lights[popped.value.command] = "OFF",
                      !.undone = Append(@, popped.value.execution),
                      !.undoCalls = @ + 1 ]

RcNext ==
  \/ (\E command \in RcCommands : RcExecute(command)) /\ Frame({"rc"})
  \/ RcUndo /\ Frame({"rc"})

SpecRemote == RcInit /\ [][RcNext]_vars

\* The execute calls whose command has not been undone.
RcLive == {e \in 1..Len(rc.executions) : \A k \in 1..Len(rc.undone) : rc.undone[k] # e}

\* The history array without the entry of an execute call.
RcWithout(e) == SelectSeq(rc.history, LAMBDA h : h.execution # e)

\* C26: no execute call is undone twice; an undo call with nothing left
\* to undo changes nothing; any other undo call undoes the command of the
\* latest execute call not yet undone and takes its entry, and no other,
\* out of the history.
C26_UndoIsLifo ==
  /\ [](\A j, k \in 1..Len(rc.undone) : rc.undone[j] = rc.undone[k] => j = k)
  /\ [][ rc'.undoCalls # rc.undoCalls =>
           IF RcLive = {}
           THEN /\ rc.history = << >>
                /\ rc' = [rc EXCEPT !.undoCalls = @ + 1]
           ELSE LET e == CHOOSE x \in RcLive : \A y \in RcLive : y <= x IN
                  /\ rc'.undone = Append(rc.undone, e)
                  /\ rc'.history = RcWithout(e)
                  /\ Len(rc'.history) = Len(rc.history) - 1
                  /\ rc'.lights = [rc.lights EXCEPT ![rc.executions[e]] = "OFF"]
                  /\ rc'.executions = rc.executions ]_vars

\* Two commands were executed and undone, the later one first, and a
\* further undo found the history empty.
C26_Witness ==
  /\ Len(rc.executions) = 2
  /\ rc.executions[1] # rc.executions[2]
  /\ rc.undone = <<2, 1>>
  /\ rc.undoCalls = 3
  /\ rc.history = << >>
  /\ \A c \in RcCommands : rc.lights[c] = "OFF"

(***************************************************************************)
(* The EventEmitter of the design patterns guide.                          *)
(*                                                                         *)
(* this.events is a plain object, so reading this.events[event] finds the  *)
(* object's own property or, failing that, the property Object.prototype   *)
(* has under that name.                                                    *)
(*                                                                         *)
(* em.events  the own properties of this.events: for each name an array    *)
(*            of listeners, or EvUndefined where there is none             *)
(* em.ons     history: the calls of on, with whether the call threw        *)
(* em.emits   history: the calls of emit, with the listener calls each     *)
(*            made, whether it threw and how many calls of on came first   *)
(***************************************************************************)

\* Calls of on in one run.
MaxEmOns == 3

\* Calls of emit in one run.
MaxEmEmits == 2

\* The event names used; "toString" is also a property of Object.prototype.
EmEvents == {"login", "logout", "toString"}

\* The names Object.prototype has a property under, among EmEvents.
ObjectPrototype == {"toString"}

EmListeners == {"listener1", "listener2"}

EmData == {"John", "Jane"}

\* The values a property of this.events can have: none, an array of
\* listeners, a function inherited from Object.prototype.
EvUndefined == [kind |-> "undefined", items |-> << >>]

EvArray(items) == [kind |-> "array", items |-> items]

EvFunction == [kind |-> "function", items |-> << >>]

\* this.events[event]
EvGet(events, event) ==
  IF events[event] # EvUndefined THEN events[event]
  ELSE IF event \in ObjectPrototype THEN EvFunction
  ELSE EvUndefined

\* constructor() { this.events = {}; }
EmInit ==
  /\ em = [ events |-> [e \in EmEvents |-> EvUndefined],
            ons |-> << >>, emits |-> << >> ]
  /\ Off({"em"})

\* on(event, listener): an array is made where this.events[event] is
\* falsy, then this.events[event].push(listener); push is missing on a
\* value that is not an array, and calling it throws a TypeError.
EmOn(event, listener) ==
  /\ Len(em.ons) < MaxEmOns
  /\ LET made == IF EvGet(em.events, event) = EvUndefined
                 THEN [em.events EXCEPT ![event] = EvArray(<< >>)]
                 ELSE em.events
         value == EvGet(made, event) IN
       IF value.kind = "array"
       THEN em' = [ em EXCEPT
                      !.events = [made EXCEPT ![event] = EvArray(Append(value.items, listener))],
                      !.ons = Append(@, [ event |-> event, listener |-> listener,
                                          thrown |-> FALSE ]) ]
       ELSE em' = [ em EXCEPT
                      !.events = made,
                      !.ons = Append(@, [ event |-> event, listener |-> listener,
                                          thrown |-> TRUE ]) ]

\* emit(event, data): returns where this.events[event] is falsy, else
\* this.events[event].forEach(listener => listener(data)); forEach is
\* missing on a value that is not an array, and calling it throws.
EmEmit(event, data) ==
  /\ Len(em.emits) < MaxEmEmits
  /\ LET value == EvGet(em.events, event)
         call == [ event |-> event, data |-> data, ons |-> Len(em.ons),
                   called |-> << >>, thrown |-> FALSE ] IN
       em' = [ em EXCEPT !.emits = Append(@,
                 IF value = EvUndefined THEN call
                 ELSE IF value.kind = "array"
                 THEN [ call EXCEPT !.called =
                          [k \in 1..Len(value.items) |-> [ listener |-> value.items[k],
                                                           data |-> data ]] ]
                 ELSE [call EXCEPT !.thrown = TRUE]) ]

EmNext ==
  \/ (\E event \in EmEvents, listener \in EmListeners : EmOn(event, listener)) /\ Frame({"em"})
  \/ (\E event \in EmEvents, data \in EmData : EmEmit(event, data)) /\ Frame({"em"})

SpecEmitter == EmInit /\ [][EmNext]_vars

\* The listeners on() was called with for the event in the first n calls
\* of on, in the order of the calls.
RECURSIVE EmRegistered(_, _)
EmRegistered(event, n) ==
  IF n = 0 THEN << >>
  ELSE IF em.ons[n].event = event
       THEN Append(EmRegistered(event, n - 1), em.ons[n].listener)
       ELSE EmRegistered(event, n - 1)

\* C27: every emit returns normally after calling, with its data, exactly
\* the listeners on() was called with for its event before it, once per
\* call of on and in that order: none of another event, and none at all
\* when the event has no listeners.
C27_EmitCallsRegistered ==
  \A i \in 1..Len(em.emits) :
    LET call == em.emits[i]
        registered == EmRegistered(call.event, call.ons) IN
      /\ ~call.thrown
      /\ Len(call.called) = Len(registered)
      /\ \A k \in 1..Len(registered) :
           call.called[k] = [listener |-> registered[k], data |-> call.data]

====
